---- MODULE Spec2Model ----
(***************************************************************************)
(* Model of the video-to-MP3 pipeline of src/src/downloader.py,           *)
(* src/src/online_converter.py and src/src/main.py.                        *)
(*                                                                         *)
(* The file system is modelled as two directories (the output directory    *)
(* and its "unprocessed" subdirectory), each a function from the paths     *)
(* that exist to the content of the file.  A path is <<stem, suffix>>.     *)
(* The resolver (yt-dlp), the local encoder (ffmpeg) and the remote        *)
(* encoding service are the environment: their outcomes are drawn          *)
(* nondeterministically.                                                   *)
(***************************************************************************)
EXTENDS Integers, Sequences, FiniteSets, TLC

\* ---------------------------------------------------------------- bounds
NumContents == 2
MaxRetries == 3
MaxUrls == 2
MaxItems == 3

\* ---------------------------------------------------------- value spaces
Stems == {"a", "b"}
\* The file names of the model: two titles, and one name whose suffix is
\* in upper case.
Paths == (Stems \X {"webm", "mp3"}) \cup {<<"a", "MP3">>}
\* Complete audio contents; PARTIAL is a truncated, half-written file.
Contents == 1..NumContents
PARTIAL == NumContents + 1
\* Content of a raw download that is not in MP3 format.
RAW == NumContents + 2
\* An empty directory.
NoFile == [p \in {} |-> PARTIAL]

VARIABLES
    outdir,             \* output_dir: existing path |-> content
    unprocessed,        \* unprocessed_dir: existing path |-> content
    downloaded_files,   \* self.downloaded_files
    skipped_ads_count,  \* self.skipped_ads_count
    max_retries,        \* self.max_retries
    ffmpeg,             \* whether shutil.which('ffmpeg') finds the encoder
    pc,                 \* position of the program
    nUrls,              \* len(urls) of main
    urlIdx,             \* number of URLs main has finished
    success,            \* main's success flag
    exitCode,           \* process exit status, -1 while running
    nItems,             \* number of items the current URL resolves to
    attempt,            \* loop variable of _download_with_retry
    item,               \* index of the item extract_info works on
    result,             \* return value of _download_with_retry
    calls,              \* history: extract_info calls for the current URL
    waits,              \* history: time.sleep arguments for the current URL
    lastFault,          \* history: fault raised by the current attempt
    skippedItems,       \* history: items of the current URL skipped as ads
    fetched,            \* history: items fetched by the current attempt
    quarantined,        \* history: items of the current attempt whose encodes both failed
    last,               \* history: the last completion event and what the hook did
    urlLog,             \* history: the URLs main has processed, in order, and whether each succeeded
    filterRun,          \* a call of _ad_filter: its info_dict and what it returned
    online,             \* a call of OnlineConverter.convert_to_mp3: its locals and effects
    handlers            \* completion handlers run in parallel: lock and positions

fsVars == <<outdir, unprocessed, downloaded_files>>
ctlVars == <<skipped_ads_count, max_retries, ffmpeg, pc, nUrls, urlIdx, success,
             exitCode, nItems, attempt, item, result, calls, waits, lastFault,
             skippedItems, fetched, quarantined, urlLog, filterRun, online,
             handlers>>
vars == <<outdir, unprocessed, downloaded_files, skipped_ads_count, max_retries,
          ffmpeg, pc, nUrls, urlIdx, success, exitCode, nItems, attempt, item,
          result, calls, waits, lastFault, skippedItems, fetched, quarantined, last,
          urlLog, filterRun, online, handlers>>

\* ------------------------------------------------------------ file system
Exists(dir, p) == p \in DOMAIN dir
WriteFile(dir, p, c) == [q \in (DOMAIN dir) \cup {p} |-> IF q = p THEN c ELSE dir[q]]
Unlink(dir, p) == [q \in (DOMAIN dir) \ {p} |-> dir[q]]

\* Mutant of Lower: suffixes are compared as they are.
Lower_identity(s) == s

\* str.lower() on the suffixes in use.
Lower(s) == IF s = "MP3" THEN "mp3" ELSE s
\* Path.with_suffix('.mp3')
with_suffix_mp3(p) == <<p[1], "mp3">>
\* output_dir.glob('*.mp3'): the pattern is matched case-sensitively (POSIX).
glob_mp3(dir) == {p \in DOMAIN dir : p[2] = "mp3"}

\* hashlib.md5 over the whole content: equal contents, equal digests.
get_file_hash(dir, p) == <<"md5", dir[p]>>

\* Mutant of is_duplicate: the candidate is compared with itself too.
is_duplicate_with_self(dir, filepath) ==
    IF ~Exists(dir, filepath) THEN FALSE
    ELSE \E existing_file \in glob_mp3(dir) :
            get_file_hash(dir, existing_file) = get_file_hash(dir, filepath)

\* Mutant of is_duplicate: the scan never reports a duplicate.
is_duplicate_never(dir, filepath) == FALSE

\* VideoDownloader._is_duplicate
is_duplicate(dir, filepath) ==
    IF ~Exists(dir, filepath) THEN FALSE
    ELSE \E existing_file \in glob_mp3(dir) :
            /\ existing_file # filepath
            /\ get_file_hash(dir, existing_file) = get_file_hash(dir, filepath)

\* ------------------------------------------------------------- encoders
\* Outcome of an encoder: "ok" writes the whole output, "fail" writes
\* nothing, "fail_partial" fails after opening and partly writing the output.
\* VideoDownloader._convert_to_mp3: ffmpeg -y -i input output.
\* Returns [ok, dir]; every exception is caught and reported as False.
convert_to_mp3(dir, output_path, outcome, content) ==
    CASE outcome = "ok" -> [ok |-> TRUE, dir |-> WriteFile(dir, output_path, content)]
      [] outcome = "fail_partial" -> [ok |-> FALSE, dir |-> WriteFile(dir, output_path, PARTIAL)]
      [] OTHER -> [ok |-> FALSE, dir |-> dir]

\* OnlineConverter.convert_to_mp3: the service streams its result into
\* output_path (opened 'wb'); a failure mid-stream leaves what was written.
online_convert_to_mp3(dir, output_path, outcome, content) ==
    CASE outcome = "ok" -> [ok |-> TRUE, dir |-> WriteFile(dir, output_path, content)]
      [] outcome = "fail_partial" -> [ok |-> FALSE, dir |-> WriteFile(dir, output_path, PARTIAL)]
      [] OTHER -> [ok |-> FALSE, dir |-> dir]

\* ------------------------------------------------- the completion handler
\* The hook's working state: the two directories, downloaded_files, the
\* local variable filepath and the log of what it did.
\* Mutant of move_to_unprocessed: the file is removed, not moved.
move_to_unprocessed_unlink(s, moveOk) ==
    IF moveOk
    THEN [s EXCEPT !.out = Unlink(s.out, s.fp),
                   !.ev = Append(@, "move")]
    ELSE [s EXCEPT !.ev = Append(@, "move_error")]

\* shutil.move(filepath, unprocessed_dir / filepath.name) inside try/except.
move_to_unprocessed(s, moveOk) ==
    IF moveOk
    THEN [s EXCEPT !.unp = WriteFile(s.unp, s.fp, s.out[s.fp]),
                   !.out = Unlink(s.out, s.fp),
                   !.ev = Append(@, "move")]
    ELSE [s EXCEPT !.ev = Append(@, "move_error")]

\* Mutant of encode_stage: a local failure quarantines the raw file at
\* once, without the remote fallback.
encode_stage_no_fallback(s, in) ==
    IF Lower(s.fp[2]) = "mp3" THEN s
    ELSE
      LET output_path == with_suffix_mp3(s.fp)
          loc == convert_to_mp3(s.out, output_path, in.local, in.lc)
      IN IF loc.ok
         THEN [s EXCEPT !.out = Unlink(loc.dir, s.fp),
                        !.fp = output_path,
                        !.ev = Append(@, "local_ok")]
         ELSE move_to_unprocessed([s EXCEPT !.out = loc.dir,
                                            !.ev = Append(@, "local_fail")], in.moveOk)

\* Mutant of encode_stage: the remote service is tried after a local
\* failure whether or not a source URL is available.
encode_stage_remote_without_url(s, in) ==
    IF Lower(s.fp[2]) = "mp3" THEN s
    ELSE
      LET output_path == with_suffix_mp3(s.fp)
          loc == convert_to_mp3(s.out, output_path, in.local, in.lc)
      IN IF loc.ok
         THEN [s EXCEPT !.out = Unlink(loc.dir, s.fp),
                        !.fp = output_path,
                        !.ev = Append(@, "local_ok")]
         ELSE
           LET s1 == [s EXCEPT !.out = loc.dir, !.ev = Append(@, "local_fail")]
               rem == online_convert_to_mp3(s1.out, output_path, in.remote, in.rc)
           IN IF rem.ok
              THEN [s1 EXCEPT !.out = Unlink(rem.dir, s.fp),
                              !.fp = output_path,
                              !.ev = Append(@, "remote_ok")]
              ELSE move_to_unprocessed([s1 EXCEPT !.out = rem.dir,
                                                  !.ev = Append(@, "remote_fail")],
                                       in.moveOk)

\* Lines 236-262: the encode stage.
\* in: [url, local, lc, remote, rc, moveOk, hashOk]
encode_stage(s, in) ==
    IF Lower(s.fp[2]) = "mp3" THEN s
    ELSE
      LET output_path == with_suffix_mp3(s.fp)
          loc == convert_to_mp3(s.out, output_path, in.local, in.lc)
      IN IF loc.ok
         THEN [s EXCEPT !.out = Unlink(loc.dir, s.fp),
                        !.fp = output_path,
                        !.ev = Append(@, "local_ok")]
         ELSE
           LET s1 == [s EXCEPT !.out = loc.dir, !.ev = Append(@, "local_fail")]
           IN IF in.url = "" THEN s1
              ELSE
                LET rem == online_convert_to_mp3(s1.out, output_path, in.remote, in.rc)
                IN IF rem.ok
                   THEN [s1 EXCEPT !.out = Unlink(rem.dir, s.fp),
                                   !.fp = output_path,
                                   !.ev = Append(@, "remote_ok")]
                   ELSE
                     LET s2 == [s1 EXCEPT !.out = rem.dir, !.ev = Append(@, "remote_fail")]
                     IN IF Exists(s2.out, s2.fp)
                        THEN move_to_unprocessed(s2, in.moveOk)
                        ELSE s2

\* Mutant of on_hook_error: the except branch raises the exception again.
on_hook_error_reraise(s, in) == [s EXCEPT !.ev = Append(@, "raised")]

\* Lines 279-288: the except branch of the hook.
on_hook_error(s, in) ==
    LET s1 == [s EXCEPT !.ev = Append(@, "error")]
    IN IF Exists(s1.out, s1.fp) /\ Lower(s1.fp[2]) # "mp3"
       THEN move_to_unprocessed(s1, in.moveOk)
       ELSE s1

\* Mutant of final_stage: a duplicate is deleted and recorded all the same.
final_stage_dup_recorded(s, in) ==
    IF ~Exists(s.out, s.fp) THEN s
    ELSE IF Lower(s.fp[2]) = "mp3"
         THEN IF ~in.hashOk THEN on_hook_error(s, in)
              ELSE IF is_duplicate(s.out, s.fp)
                   THEN [s EXCEPT !.out = Unlink(s.out, s.fp),
                                  !.df = @ \cup {s.fp},
                                  !.ev = Append(@, "duplicate")]
                   ELSE [s EXCEPT !.df = @ \cup {s.fp},
                                  !.ev = Append(@, "accepted")]
         ELSE IF in.moveOk
              THEN move_to_unprocessed(s, TRUE)
              ELSE on_hook_error(move_to_unprocessed(s, FALSE), in)

\* Lines 264-277: "Process the final file".
final_stage(s, in) ==
    IF ~Exists(s.out, s.fp) THEN s
    ELSE IF Lower(s.fp[2]) = "mp3"
         THEN IF ~in.hashOk THEN on_hook_error(s, in)
              ELSE IF is_duplicate(s.out, s.fp)
                   THEN [s EXCEPT !.out = Unlink(s.out, s.fp),
                                  !.ev = Append(@, "duplicate")]
                   ELSE [s EXCEPT !.df = @ \cup {s.fp},
                                  !.ev = Append(@, "accepted")]
         ELSE IF in.moveOk
              THEN move_to_unprocessed(s, TRUE)
              ELSE on_hook_error(move_to_unprocessed(s, FALSE), in)

\* VideoDownloader._download_hook with status 'finished'.
download_hook(out, unp, df, filename, in) ==
    final_stage(encode_stage([out |-> out, unp |-> unp, df |-> df,
                              fp |-> filename, ev |-> <<>>], in), in)

\* What the environment decides for one completion event.  Only the
\* outcomes the hook consults for that file are varied.
Mp3Inputs ==
    [url : {"u"}, local : {"ok"}, lc : {1}, remote : {"ok"}, rc : {1},
     moveOk : {TRUE}, hashOk : BOOLEAN]
LocalOkInputs ==
    [url : {"u"}, local : {"ok"}, lc : Contents, remote : {"ok"}, rc : {1},
     moveOk : {TRUE}, hashOk : BOOLEAN]
NoUrlInputs ==
    [url : {""}, local : {"fail", "fail_partial"}, lc : {1}, remote : {"ok"}, rc : {1},
     moveOk : BOOLEAN, hashOk : {TRUE}]
RemoteOkInputs ==
    [url : {"u"}, local : {"fail", "fail_partial"}, lc : {1}, remote : {"ok"},
     rc : Contents, moveOk : {TRUE}, hashOk : BOOLEAN]
RemoteFailInputs ==
    [url : {"u"}, local : {"fail", "fail_partial"}, lc : {1},
     remote : {"fail", "fail_partial"}, rc : {1}, moveOk : BOOLEAN, hashOk : {TRUE}]
HookInputs(suffix) ==
    IF Lower(suffix) = "mp3" THEN Mp3Inputs
    ELSE LocalOkInputs \cup NoUrlInputs \cup RemoteOkInputs \cup RemoteFailInputs

\* Every combination of the outcomes the hook can meet: source URL or
\* none, local encode, remote encode, file move, digest computation.
AllHookInputs ==
    [url : {"u", ""}, local : {"ok", "fail", "fail_partial"}, lc : {1},
     remote : {"ok", "fail", "fail_partial"}, rc : {1},
     moveOk : BOOLEAN, hashOk : BOOLEAN]

\* The candidate the encode stage hands to the dedup check: <<path, content>>,
\* or <<>> when there is none (both encoders failed).
candidate(s) ==
    IF Exists(s.out, s.fp) /\ Lower(s.fp[2]) = "mp3"
    THEN <<s.fp, s.out[s.fp]>>
    ELSE <<>>

\* The resolver stores the raw download under `filename` and reports
\* status 'finished'; the hook then runs to completion.
Completion(filename, raw, in) ==
    LET start == [out |-> WriteFile(outdir, filename, raw), unp |-> unprocessed,
                  df |-> downloaded_files, fp |-> filename, ev |-> <<>>]
        r == download_hook(start.out, unprocessed, downloaded_files, filename, in)
    IN /\ outdir' = r.out
       /\ unprocessed' = r.unp
       /\ downloaded_files' = r.df
       /\ last' = [filename |-> filename, url |-> in.url, ev |-> r.ev,
                   cand |-> candidate(encode_stage(start, in))]

RawContents(suffix) == IF Lower(suffix) = "mp3" THEN Contents ELSE {RAW}

NoEvent == [filename |-> <<"", "">>, url |-> "", ev |-> <<>>, cand |-> <<>>]
NoFault == [type |-> "none", msg |-> {}]
\* No call of the content filter / of the remote converter is tracked.
NoFilterRun == [info_dict |-> <<>>, ret |-> "none"]
NoOnlineRun == [pc |-> "none"]
\* No handler runs in parallel.
NoHandlers == [locking |-> FALSE, holder |-> 0, h |-> <<>>]

\* ------------------------------------------------------ content filter
\* Text is a sequence of one-character strings.
UpperAlphabet == <<"A","B","C","D","E","F","G","H","I","J","K","L","M",
                   "N","O","P","Q","R","S","T","U","V","W","X","Y","Z">>
LowerAlphabet == <<"a","b","c","d","e","f","g","h","i","j","k","l","m",
                   "n","o","p","q","r","s","t","u","v","w","x","y","z">>
lower_char(c) ==
    IF \E i \in 1..26 : UpperAlphabet[i] = c
    THEN LowerAlphabet[CHOOSE i \in 1..26 : UpperAlphabet[i] = c]
    ELSE c
\* str.lower()
str_lower(t) == [i \in 1..Len(t) |-> lower_char(t[i])]
\* sub in t
str_in(sub, t) ==
    \E k \in 0..(Len(t) - Len(sub)) : \A i \in 1..Len(sub) : t[k + i] = sub[i]
\* str(list) of a list of strings: "['x', 'y']"
RECURSIVE join_repr(_)
join_repr(tags) ==
    IF Len(tags) = 0 THEN <<>>
    ELSE <<"'">> \o tags[1] \o <<"'">>
         \o (IF Len(tags) > 1 THEN <<",", " ">> ELSE <<>>)
         \o join_repr(Tail(tags))
str_of_list(tags) == <<"[">> \o join_repr(tags) \o <<"]">>

W_advertisement == <<"a","d","v","e","r","t","i","s","e","m","e","n","t">>
W_sponsor == <<"s","p","o","n","s","o","r">>
W_ad == <<"a","d">>
\* Known ad channel IDs (line 131), abstracted to a token.
AdChannelIds == {"UCbMScGQ8jGRogxS8PyCM8uA"}

\* VideoDownloader._ad_filter: TRUE when the item is rejected.
ad_filter(info_dict) ==
    \/ info_dict.is_ad
    \/ info_dict.ad_flag
    \/ str_in(W_advertisement, str_lower(info_dict.title))
    \/ str_in(W_sponsor, str_lower(info_dict.title))
    \/ info_dict.duration < 10
    \/ info_dict.channel_id \in AdChannelIds
    \/ \E tag \in {W_ad, W_advertisement, W_sponsor} :
          str_in(tag, str_lower(str_of_list(info_dict.tags)))
    \/ info_dict.live_status = "is_live"

\* The items the acquisition specification resolves: a programme and a
\* five-second clip.
Programme ==
    [is_ad |-> FALSE, ad_flag |-> FALSE, title |-> <<"S","o","n","g">>,
     duration |-> 200, channel_id |-> "UC1", tags |-> << <<"m","u","s","i","c">> >>,
     live_status |-> "not_live"]
ShortClip == [Programme EXCEPT !.duration = 5]
InfoDicts == {Programme, ShortClip}

\* ---------------------------------------------------------------- faults
\* A fault raised by extract_info: the exception type and the keywords
\* its lower-cased message contains.
Keywords == {"private video", "sign in", "premium", "members only", "copyright",
             "advertisement", "video unavailable"}
Messages ==
    {{}} \cup {{k} : k \in Keywords}
         \cup {{"private video", "sign in"}, {"video unavailable", "copyright"}}
Faults == [type : {"DownloadError"}, msg : Messages]
            \cup {[type |-> "Exception", msg |-> {}]}
\* Authorization and availability faults, and the faults that are retried.
PermanentFaults ==
    {f \in Faults : f.type = "DownloadError" /\ f.msg # {} /\ "advertisement" \notin f.msg}
TransientFaults == {f \in Faults : f.msg = {}}

\* Mutant of wait_time: a linear backoff.
wait_time_linear(a) == 2 * a

\* Lines 344 / 353
wait_time(a) == 2 ^ a

\* Mutant of retry_allowed: the loop gives up one attempt early.
retry_allowed_short(a, retries) == a < retries - 2

\* Lines 343 / 352: whether another attempt follows attempt a.
retry_allowed(a, retries) == a < retries - 1

\* Mutant of classify: an advertisement fault (lines 327-330) is retried
\* like an unknown fault.
classify_ad_retried(f) ==
    IF f.type = "DownloadError"
    THEN IF \E m \in {"private video", "sign in", "premium", "members only"} : m \in f.msg
         THEN "False"
         ELSE IF "copyright" \in f.msg THEN "False"
         ELSE IF "video unavailable" \in f.msg /\ "advertisement" \notin f.msg THEN "False"
         ELSE "retry"
    ELSE "retry"

\* Mutant of classify: the copyright branch (lines 324-326) is missing.
classify_no_copyright(f) ==
    IF f.type = "DownloadError"
    THEN IF \E m \in {"private video", "sign in", "premium", "members only"} : m \in f.msg
         THEN "False"
         ELSE IF "advertisement" \in f.msg THEN "True"
         ELSE IF "video unavailable" \in f.msg THEN "False"
         ELSE "retry"
    ELSE "retry"

\* Lines 317-358: what the handlers of _download_with_retry do with a fault:
\* "True" / "False" (return), or "retry".
classify(f) ==
    IF f.type = "DownloadError"
    THEN IF \E m \in {"private video", "sign in", "premium", "members only"} : m \in f.msg
         THEN "False"
         ELSE IF "copyright" \in f.msg THEN "False"
         ELSE IF "advertisement" \in f.msg THEN "True"
         ELSE IF "video unavailable" \in f.msg THEN "False"
         ELSE IF "private video" \in f.msg \/ "sign in" \in f.msg THEN "False"
         ELSE "retry"
    ELSE "retry"

\* ---------------------------------------------------- filename sanitizer
\* Text is a sequence of one-character strings; "U+FF02" and "U+FF21"
\* stand for the fullwidth quotation mark and the fullwidth letter A.
Digits == {"0", "1", "2", "3", "4", "5", "6", "7", "8", "9"}
\* \w of the re module
WordChars ==
    {UpperAlphabet[i] : i \in 1..26} \cup {LowerAlphabet[i] : i \in 1..26}
        \cup Digits \cup {"_"}
\* \s
SpaceChars == {" "}
\* The class ['\"...] of line 63, after normalisation.
QuoteChars == {"'", "\"", "U+FF02"}
\* unicodedata.normalize('NFKC', name), line 58
nfkc_char(c) ==
    CASE c = "U+FF02" -> "\""
      [] c = "U+FF21" -> "A"
      [] OTHER -> c
nfkc(name) == [i \in 1..Len(name) |-> nfkc_char(name[i])]
\* Leading / trailing characters of a class removed.
RECURSIVE lstrip(_, _)
lstrip(name, class) ==
    IF name # <<>> /\ name[1] \in class THEN lstrip(Tail(name), class) ELSE name
RECURSIVE rstrip(_, _)
rstrip(name, class) ==
    IF name # <<>> /\ name[Len(name)] \in class
    THEN rstrip(SubSeq(name, 1, Len(name) - 1), class)
    ELSE name
strip(name, class) == rstrip(lstrip(name, class), class)
\* re.sub(class+, repl, name): every run of the class becomes one repl.
RECURSIVE sub_runs(_, _, _)
sub_runs(name, class, repl) ==
    IF name = <<>> THEN <<>>
    ELSE IF name[1] \in class
         THEN <<repl>> \o sub_runs(lstrip(name, class), class, repl)
         ELSE <<name[1]>> \o sub_runs(Tail(name), class, repl)
\* re.sub(r'[^\w\s-]', '', name), line 65
keep_word_space_hyphen(name) ==
    SelectSeq(name, LAMBDA c : c \in WordChars \cup SpaceChars \cup {"-"})

\* VideoDownloader._sanitize_filename on the name part (lines 54-75); the
\* extension is kept as it is (line 78).
sanitize_name(name) ==
    LET n1 == nfkc(name)
        n2 == strip(n1, QuoteChars)
        n3 == keep_word_space_hyphen(n2)
        n4 == sub_runs(strip(n3, SpaceChars), SpaceChars, "_")
        n5 == sub_runs(n4, {"-", "_"}, "_")
        n6 == strip(n5, {"_"})
    IN IF n6 = <<>> THEN <<"a", "u", "d", "i", "o">> ELSE n6
sanitize_filename(p) == <<sanitize_name(p[1]), p[2]>>

\* The titles the two stems stand for: %(title)s of 'outtmpl' (line 84).
title(stem) ==
    IF stem = "a" THEN <<"M", "y", " ", "S", "o", "n", "g", "!">>
    ELSE <<"S", "o", "n", "g">>

\* ------------------------------------------------------------ acquisition
\* The completion events the acquisition specification draws: one title;
\* the local encode succeeds, or both encoders fail and the move succeeds;
\* the digest computation may fail.
AcqPaths == {<<"a", "webm">>}
AcqInputs ==
    {in \in LocalOkInputs \cup RemoteFailInputs \cup NoUrlInputs :
        in.lc = 1 /\ in.moveOk /\ in.local # "fail_partial"
        /\ in.remote # "fail_partial"}

Init ==
    /\ outdir = NoFile
    /\ unprocessed = NoFile
    /\ downloaded_files = {}
    /\ skipped_ads_count = 0
    /\ max_retries \in -1..MaxRetries
    /\ ffmpeg \in BOOLEAN
    /\ pc = "start"
    /\ nUrls \in 1..MaxUrls
    /\ urlIdx = 0
    /\ success = TRUE
    /\ exitCode = -1
    /\ nItems = 0
    /\ attempt = 0
    /\ item = 0
    /\ result = "none"
    /\ calls = 0
    /\ waits = <<>>
    /\ lastFault = NoFault
    /\ skippedItems = {}
    /\ fetched = {}
    /\ quarantined = {}
    /\ last = NoEvent
    /\ urlLog = <<>>
    /\ filterRun = NoFilterRun
    /\ online = NoOnlineRun
    /\ handlers = NoHandlers

\* Mutant of check_dependencies: the encoder is not looked for.
check_dependencies_skipped(found) == TRUE

\* VideoDownloader._check_dependencies: TRUE when it returns, FALSE when it
\* raises RuntimeError; found is the result of shutil.which('ffmpeg').
check_dependencies(found) == found

\* Mutant of exit_status: the process always ends normally.
exit_status_zero(ok) == 0

\* main lines 82-86: falling off the end of main is status 0, exit(1) is 1.
exit_status(ok) == IF ok THEN 0 ELSE 1

\* main lines 42-47 and VideoDownloader.__init__: a missing encoder raises
\* RuntimeError, which main turns into exit status 1.
Construct ==
    /\ pc = "start"
    /\ IF check_dependencies(ffmpeg)
       THEN /\ pc' = "main"
            /\ downloaded_files' = {}
            /\ skipped_ads_count' = 0
            /\ success' = TRUE
            /\ exitCode' = exitCode
       ELSE /\ pc' = "exit"
            /\ exitCode' = 1
            /\ UNCHANGED <<downloaded_files, skipped_ads_count, success>>
    /\ UNCHANGED <<outdir, unprocessed, max_retries, ffmpeg, nUrls, urlIdx, nItems,
                   attempt, item, result, calls, waits, lastFault, skippedItems,
                   fetched, quarantined, last>>
    /\ UNCHANGED <<urlLog, filterRun, online>>
    /\ UNCHANGED handlers

\* main lines 72-74, process_url, download_single / download_playlist and
\* line 296: the next URL is handed to _download_with_retry.
NextUrl ==
    /\ pc = "main"
    /\ urlIdx < nUrls
    /\ \E n \in 1..MaxItems : nItems' = n
    /\ skipped_ads_count' = 0
    /\ attempt' = 0
    /\ item' = 0
    /\ result' = "none"
    /\ calls' = 0
    /\ waits' = <<>>
    /\ lastFault' = NoFault
    /\ skippedItems' = {}
    /\ fetched' = {}
    /\ quarantined' = {}
    /\ pc' = "loop"
    /\ UNCHANGED <<outdir, unprocessed, downloaded_files, max_retries, ffmpeg, nUrls,
                   urlIdx, success, exitCode, last>>
    /\ UNCHANGED <<urlLog, filterRun, online>>
    /\ UNCHANGED handlers

\* Line 297-303: an iteration of the for loop calls extract_info.
BeginAttempt ==
    /\ pc = "loop"
    /\ attempt < max_retries
    /\ calls' = calls + 1
    /\ item' = 1
    /\ lastFault' = NoFault
    /\ fetched' = {}
    /\ quarantined' = {}
    /\ pc' = "item"
    /\ UNCHANGED <<outdir, unprocessed, downloaded_files, skipped_ads_count,
                   max_retries, ffmpeg, nUrls, urlIdx, success, exitCode, nItems,
                   attempt, result, waits, skippedItems, last>>
    /\ UNCHANGED <<urlLog, filterRun, online>>
    /\ UNCHANGED handlers

\* Line 297: range(max_retries) is exhausted; the function falls off its
\* end and returns None.
LoopExit ==
    /\ pc = "loop"
    /\ ~(attempt < max_retries)
    /\ result' = "None"
    /\ pc' = "done"
    /\ UNCHANGED <<outdir, unprocessed, downloaded_files, skipped_ads_count,
                   max_retries, ffmpeg, nUrls, urlIdx, success, exitCode, nItems,
                   attempt, item, calls, waits, lastFault, skippedItems, fetched,
                   quarantined, last>>
    /\ UNCHANGED <<urlLog, filterRun, online>>
    /\ UNCHANGED handlers

\* The resolver consults match_filter (line 103) for the item and the
\* filter rejects it: the item is skipped without being fetched.
ItemFiltered ==
    /\ pc = "item"
    /\ item <= nItems
    /\ \E info_dict \in InfoDicts : ad_filter(info_dict)
    /\ skipped_ads_count' = skipped_ads_count + 1
    /\ skippedItems' = skippedItems \cup {item}
    /\ item' = item + 1
    /\ UNCHANGED <<outdir, unprocessed, downloaded_files, max_retries, ffmpeg, pc,
                   nUrls, urlIdx, success, exitCode, nItems, attempt, result, calls,
                   waits, lastFault, fetched, quarantined, last>>
    /\ UNCHANGED <<urlLog, filterRun, online>>
    /\ UNCHANGED handlers

IsQuarantine(ev) ==
    \E i \in 1..Len(ev) : ev[i] \in {"move", "move_error"}

\* The filter admits the item, the resolver fetches it and reports
\* 'finished' to the hook (line 92).
ItemFetched ==
    /\ pc = "item"
    /\ item <= nItems
    /\ \E info_dict \in InfoDicts : ~ad_filter(info_dict)
    /\ \E filename \in AcqPaths :
         \E raw \in RawContents(filename[2]) :
           \E in \in AcqInputs :
             Completion(filename, raw, in)
    /\ fetched' = fetched \cup {item}
    /\ quarantined' = IF IsQuarantine(last'.ev) THEN quarantined \cup {item}
                      ELSE quarantined
    /\ pc' = "post"
    /\ UNCHANGED <<skipped_ads_count, max_retries, ffmpeg, nUrls, urlIdx, success,
                   exitCode, nItems, attempt, item, result, calls, waits, lastFault,
                   skippedItems>>
    /\ UNCHANGED <<urlLog, filterRun, online>>
    /\ UNCHANGED handlers

\* The hook has returned; the resolver goes on to the next item.
ItemDone ==
    /\ pc = "post"
    /\ item' = item + 1
    /\ pc' = "item"
    /\ last' = NoEvent
    /\ UNCHANGED <<outdir, unprocessed, downloaded_files, skipped_ads_count,
                   max_retries, ffmpeg, nUrls, urlIdx, success, exitCode, nItems,
                   attempt, result, calls, waits, lastFault, skippedItems, fetched,
                   quarantined>>
    /\ UNCHANGED <<urlLog, filterRun, online>>
    /\ UNCHANGED handlers

\* Lines 317-358: extract_info raises while working on an item
\* ('ignoreerrors': False, line 94) and a handler deals with the fault.
\* Before the download the fault may be any; after it (post-processing)
\* its message holds none of the keywords.
ItemFault ==
    /\ \/ pc = "item" /\ item <= nItems
       \/ pc = "post"
    /\ last' = NoEvent
    /\ \E f \in (IF pc = "post" THEN TransientFaults ELSE Faults) :
         /\ lastFault' = f
         /\ LET c == classify(f)
            IN IF c = "retry"
               THEN IF retry_allowed(attempt, max_retries)
                    THEN /\ waits' = Append(waits, wait_time(attempt))
                         /\ attempt' = attempt + 1
                         /\ pc' = "loop"
                         /\ UNCHANGED <<result, skipped_ads_count, skippedItems>>
                    ELSE /\ result' = "False"
                         /\ pc' = "done"
                         /\ UNCHANGED <<waits, attempt, skipped_ads_count, skippedItems>>
               ELSE /\ result' = c
                    /\ pc' = "done"
                    /\ skipped_ads_count' =
                          IF c = "True" THEN skipped_ads_count + 1 ELSE skipped_ads_count
                    /\ skippedItems' =
                          IF c = "True" THEN skippedItems \cup {item} ELSE skippedItems
                    /\ UNCHANGED <<waits, attempt>>
    /\ UNCHANGED <<outdir, unprocessed, downloaded_files, max_retries, ffmpeg, nUrls,
                   urlIdx, success, exitCode, nItems, item, calls, fetched,
                   quarantined>>
    /\ UNCHANGED <<urlLog, filterRun, online>>
    /\ UNCHANGED handlers

\* Lines 303-315: extract_info returns; the result depends on info.
InfoKinds == {"none", "no_title", "title"}
ExtractReturns ==
    /\ pc = "item"
    /\ item > nItems
    /\ \E info \in InfoKinds :
         result' = IF info = "title" THEN "True" ELSE "False"
    /\ pc' = "done"
    /\ UNCHANGED <<outdir, unprocessed, downloaded_files, skipped_ads_count,
                   max_retries, ffmpeg, nUrls, urlIdx, success, exitCode, nItems,
                   attempt, item, calls, waits, lastFault, skippedItems, fetched,
                   quarantined, last>>
    /\ UNCHANGED <<urlLog, filterRun, online>>
    /\ UNCHANGED handlers

\* main lines 74-76: a falsy result marks the run as failed.
UrlDone ==
    /\ pc = "done"
    /\ success' = IF result = "True" THEN success ELSE FALSE
    /\ urlIdx' = urlIdx + 1
    /\ urlLog' = Append(urlLog, [url |-> urlIdx + 1, ok |-> result = "True"])
    /\ pc' = "main"
    /\ UNCHANGED <<outdir, unprocessed, downloaded_files, skipped_ads_count,
                   max_retries, ffmpeg, nUrls, exitCode, nItems, attempt, item, result,
                   calls, waits, lastFault, skippedItems, fetched, quarantined, last>>
    /\ UNCHANGED <<filterRun, online>>
    /\ UNCHANGED handlers

\* main lines 82-86: the summary and the exit status.
Finish ==
    /\ pc = "main"
    /\ urlIdx = nUrls
    /\ exitCode' = exit_status(success)
    /\ pc' = "exit"
    /\ UNCHANGED <<outdir, unprocessed, downloaded_files, skipped_ads_count,
                   max_retries, ffmpeg, nUrls, urlIdx, success, nItems, attempt, item,
                   result, calls, waits, lastFault, skippedItems, fetched,
                   quarantined, last>>
    /\ UNCHANGED <<urlLog, filterRun, online>>
    /\ UNCHANGED handlers

Next ==
    \/ Construct
    \/ NextUrl
    \/ BeginAttempt
    \/ LoopExit
    \/ ItemFiltered
    \/ ItemFetched
    \/ ItemDone
    \/ ItemFault
    \/ ExtractReturns
    \/ UrlDone
    \/ Finish

Spec == Init /\ [][Next]_vars

\* ---------------------------------------------- completion events alone
\* Any sequence of completion events on the two directories, and later runs
\* of the program on them.  Every digest computation succeeds here.
\* The output directory is created if missing (exist_ok): it is empty or
\* holds the output of an earlier run.
EarlierOutputs == {NoFile, [p \in {<<"a", "mp3">>} |-> 1]}

InitHook ==
    /\ outdir \in EarlierOutputs
    /\ unprocessed = NoFile
    /\ downloaded_files = {}
    /\ skipped_ads_count = 0
    /\ max_retries = 1
    /\ ffmpeg = TRUE
    /\ pc = "item"
    /\ nUrls = 1
    /\ urlIdx = 0
    /\ success = TRUE
    /\ exitCode = -1
    /\ nItems = 1
    /\ attempt = 0
    /\ item = 1
    /\ result = "none"
    /\ calls = 1
    /\ waits = <<>>
    /\ lastFault = NoFault
    /\ skippedItems = {}
    /\ fetched = {}
    /\ quarantined = {}
    /\ last = NoEvent
    /\ urlLog = <<>>
    /\ filterRun = NoFilterRun
    /\ online = NoOnlineRun
    /\ handlers = NoHandlers

\* The resolver reports 'finished' for a file and the hook processes it.
Finished ==
    /\ pc = "item"
    /\ \E filename \in Paths :
         \E raw \in RawContents(filename[2]) :
           \E in \in {i \in HookInputs(filename[2]) : i.hashOk} :
             Completion(filename, raw, in)
    /\ pc' = "post"
    /\ UNCHANGED <<skipped_ads_count, max_retries, ffmpeg, nUrls, urlIdx, success,
                   exitCode, nItems, attempt, item, result, calls, waits, lastFault,
                   skippedItems, fetched, quarantined>>
    /\ UNCHANGED <<urlLog, filterRun, online>>
    /\ UNCHANGED handlers

\* The hook has returned and the resolver goes on.
Continue ==
    /\ pc = "post"
    /\ pc' = "item"
    /\ last' = NoEvent
    /\ UNCHANGED fsVars
    /\ UNCHANGED <<skipped_ads_count, max_retries, ffmpeg, nUrls, urlIdx, success,
                   exitCode, nItems, attempt, item, result, calls, waits, lastFault,
                   skippedItems, fetched, quarantined>>
    /\ UNCHANGED <<urlLog, filterRun, online>>
    /\ UNCHANGED handlers

\* A later run of the program on the same directories: __init__ starts
\* with an empty downloaded_files.
Rerun ==
    /\ pc = "item"
    /\ downloaded_files' = {}
    /\ UNCHANGED <<outdir, unprocessed, last>>
    /\ UNCHANGED ctlVars

NextHook == Finished \/ Continue \/ Rerun

SpecHook == InitHook /\ [][NextHook]_vars

\* ------------------------------------------------- content filter alone
\* The info_dicts handed to the content filter.
Titles == { <<"S","o","n","g">>,
            <<"A","D","V","E","R","T","I","S","E","M","E","N","T">>,
            <<"S","p","o","n","s","o","r","e","d">>,
            <<"A","d","v","e","n","t","u","r","e">> }
Durations == {9, 10, 200}
ChannelIds == {"UC1"} \cup AdChannelIds
TagLists == { <<>>,
              << <<"m","u","s","i","c">> >>,
              << <<"a","d">> >>,
              << <<"r","a","d","i","o">> >>,
              << <<"S","p","o","n","s","o","r">>, <<"m","u","s","i","c">> >> }
LiveStatuses == {"not_live", "is_live"}
FilterInputs ==
    [is_ad : BOOLEAN, ad_flag : BOOLEAN, title : Titles, duration : Durations,
     channel_id : ChannelIds, tags : TagLists, live_status : LiveStatuses]

InitFilter ==
    /\ outdir = NoFile
    /\ unprocessed = NoFile
    /\ downloaded_files = {}
    /\ skipped_ads_count = 0
    /\ max_retries = 1
    /\ ffmpeg = TRUE
    /\ pc = "filter"
    /\ nUrls = 1
    /\ urlIdx = 0
    /\ success = TRUE
    /\ exitCode = -1
    /\ nItems = 1
    /\ attempt = 0
    /\ item = 1
    /\ result = "none"
    /\ calls = 1
    /\ waits = <<>>
    /\ lastFault = NoFault
    /\ skippedItems = {}
    /\ fetched = {}
    /\ quarantined = {}
    /\ last = NoEvent
    /\ urlLog = <<>>
    /\ \E d \in FilterInputs : filterRun = [info_dict |-> d, ret |-> "none"]
    /\ online = NoOnlineRun
    /\ handlers = NoHandlers

\* The resolver calls match_filter (line 103) with the info_dict.
MatchFilter ==
    /\ pc = "filter"
    /\ IF ad_filter(filterRun.info_dict)
       THEN /\ skipped_ads_count' = skipped_ads_count + 1
            /\ filterRun' = [filterRun EXCEPT !.ret = "Ad content detected and skipped"]
       ELSE /\ skipped_ads_count' = skipped_ads_count
            /\ filterRun' = [filterRun EXCEPT !.ret = "None"]
    /\ pc' = "filtered"
    /\ UNCHANGED <<outdir, unprocessed, downloaded_files, max_retries, ffmpeg, nUrls,
                   urlIdx, success, exitCode, nItems, attempt, item, result, calls,
                   waits, lastFault, skippedItems, fetched, quarantined, last, urlLog,
                   online>>
    /\ UNCHANGED handlers

NextFilter == MatchFilter

SpecFilter == InitFilter /\ [][NextFilter]_vars

\* ------------------------------------------------ remote converter alone
\* OnlineConverter.convert_to_mp3 step by step.  Each HTTP request returns
\* or raises.  online: [pc, video_url, output_path, retry_count, gets,
\* waits, events, ret]; the result file is written into outdir.
online_max_retries == 3

\* Mutant of online_wait_time: a constant delay.
online_wait_time_constant(retry_count) == 2

\* online_converter.py line 68
online_wait_time(retry_count) == 2 ^ retry_count

OnlinePaths == Stems \X {"mp3"}
\* Lines 31-46: the POST succeeds with a download URL; requests raises a
\* RequestException; something else raises (e.g. the body is no JSON); the
\* service answers success = false; the answer has no download_url.
PostOutcomes == {"ok", "request_exception", "exception", "not_success", "no_download_url"}
\* Lines 53-63: the GET and the write succeed; the GET raises a
\* RequestException before the file is opened; the stream raises one after
\* the file was opened and partly written; something else raises (e.g.
\* OSError on open).
GetOutcomes == {"ok", "request_exception", "stream_exception", "exception"}

InitOnline ==
    /\ outdir \in EarlierOutputs
    /\ unprocessed = NoFile
    /\ downloaded_files = {}
    /\ skipped_ads_count = 0
    /\ max_retries = 1
    /\ ffmpeg = TRUE
    /\ pc = "online"
    /\ nUrls = 1
    /\ urlIdx = 0
    /\ success = TRUE
    /\ exitCode = -1
    /\ nItems = 1
    /\ attempt = 0
    /\ item = 1
    /\ result = "none"
    /\ calls = 1
    /\ waits = <<>>
    /\ lastFault = NoFault
    /\ skippedItems = {}
    /\ fetched = {}
    /\ quarantined = {}
    /\ last = NoEvent
    /\ urlLog = <<>>
    /\ filterRun = NoFilterRun
    /\ \E output_path \in OnlinePaths :
         online = [pc |-> "post", video_url |-> "u", output_path |-> output_path,
                   retry_count |-> 0, gets |-> 0, waits |-> <<>>, events |-> <<>>,
                   ret |-> "none"]
    /\ handlers = NoHandlers

\* Lines 28-46 and 75-80: the conversion is requested.
PostConversion ==
    /\ online.pc = "post"
    /\ \E o \in PostOutcomes :
         online' = IF o = "ok"
                   THEN [online EXCEPT !.pc = "get", !.events = Append(@, <<"post", o>>)]
                   ELSE [online EXCEPT !.pc = "done", !.ret = "False",
                                       !.events = Append(@, <<"post", o>>)]
    /\ UNCHANGED <<outdir, unprocessed, downloaded_files, skipped_ads_count,
                   max_retries, ffmpeg, pc, nUrls, urlIdx, success, exitCode, nItems,
                   attempt, item, result, calls, waits, lastFault, skippedItems,
                   fetched, quarantined, last, urlLog, filterRun>>
    /\ UNCHANGED handlers

\* Lines 51-73 and 78-80: one iteration of the download loop.
GetResult ==
    /\ online.pc = "get"
    /\ online.retry_count < online_max_retries
    /\ \E o \in GetOutcomes : \E c \in Contents :
         LET got == [online EXCEPT !.gets = @ + 1, !.events = Append(@, <<"get", o>>)]
             retry_count == online.retry_count + 1
         IN CASE o = "ok" ->
                   /\ outdir' = WriteFile(outdir, online.output_path, c)
                   /\ online' = [got EXCEPT !.pc = "done", !.ret = "True"]
              [] o = "exception" ->
                   /\ outdir' = outdir
                   /\ online' = [got EXCEPT !.pc = "done", !.ret = "False"]
              [] OTHER ->
                   /\ outdir' = IF o = "stream_exception"
                                THEN WriteFile(outdir, online.output_path, PARTIAL)
                                ELSE outdir
                   /\ online' =
                        IF retry_count < online_max_retries
                        THEN [got EXCEPT !.retry_count = retry_count,
                                         !.waits = Append(@, online_wait_time(retry_count)),
                                         !.events = Append(@, <<"sleep", "">>)]
                        ELSE [got EXCEPT !.retry_count = retry_count,
                                         !.pc = "done", !.ret = "False"]
    /\ UNCHANGED <<unprocessed, downloaded_files, skipped_ads_count,
                   max_retries, ffmpeg, pc, nUrls, urlIdx, success, exitCode, nItems,
                   attempt, item, result, calls, waits, lastFault, skippedItems,
                   fetched, quarantined, last, urlLog, filterRun>>
    /\ UNCHANGED handlers

NextOnline == PostConversion \/ GetResult

\* The calling flow is sequential and blocking: a step that can be taken
\* is taken.
SpecOnline == InitOnline /\ [][NextOnline]_vars /\ WF_vars(NextOnline)

\* ================================================================ claims
AcceptedOutputs == {p \in downloaded_files : Exists(outdir, p)}
\* ------------------------------------ completion handlers in parallel
\* The 'finished' branch of _download_hook run by two threads on one output
\* directory, one thread per item, each item with a title of its own.  The
\* steps are the ones of the code: the encoder opens and truncates the
\* output (ffmpeg -y), completes it, _is_duplicate lists the directory, then
\* digests the listed files, and the handler unlinks or records its file.
\* With locking, lines 265-272 (the scan and the commit) run under one lock
\* per output directory; without it, the steps interleave freely.
Handlers == {1, 2}

\* The state of the sequential program, which the handlers leave alone.
seqVars == <<skipped_ads_count, max_retries, ffmpeg, pc, nUrls, urlIdx, success,
             exitCode, nItems, attempt, item, result, calls, waits, lastFault,
             skippedItems, fetched, quarantined, urlLog, filterRun, online>>

HandlerAt(i) == handlers.h[i]
AllDone == \A i \in Handlers : HandlerAt(i).pc = "done"

\* What the output directory holds when the handlers start: nothing, a file
\* left by an earlier run, or that file accepted earlier in this run.
InitPar ==
    /\ outdir \in EarlierOutputs
    /\ unprocessed = NoFile
    /\ downloaded_files \in SUBSET (DOMAIN outdir)
    /\ skipped_ads_count = 0
    /\ max_retries = 1
    /\ ffmpeg = TRUE
    /\ pc = "parallel"
    /\ nUrls = 1
    /\ urlIdx = 0
    /\ success = TRUE
    /\ exitCode = -1
    /\ nItems = 2
    /\ attempt = 0
    /\ item = 1
    /\ result = "none"
    /\ calls = 1
    /\ waits = <<>>
    /\ lastFault = NoFault
    /\ skippedItems = {}
    /\ fetched = {}
    /\ quarantined = {}
    /\ last = NoEvent
    /\ urlLog = <<>>
    /\ filterRun = NoFilterRun
    /\ online = NoOnlineRun
    /\ \E locking \in BOOLEAN :
         \E paths \in {f \in [Handlers -> OnlinePaths] : f[1] # f[2]} :
           \E contents \in [Handlers -> Contents] :
             handlers = [locking |-> locking, holder |-> 0,
                         h |-> [i \in Handlers |->
                                  [pc |-> "convert", output_path |-> paths[i],
                                   content |-> contents[i], listing |-> {},
                                   dup |-> FALSE]]]

\* What _is_duplicate digests: the files it listed that are still there,
\* and the handler's own file.
Listed(i) ==
    [q \in (HandlerAt(i).listing \cap DOMAIN outdir) \cup {HandlerAt(i).output_path}
        |-> outdir[q]]

\* A listed file that was unlinked since: open() raises FileNotFoundError.
Vanished(i) == HandlerAt(i).listing \ DOMAIN outdir

\* Lines 188-195: ffmpeg -y opens the output, truncating a file of that name.
ConvertBegin(i) ==
    /\ pc = "parallel"
    /\ HandlerAt(i).pc = "convert"
    /\ outdir' = WriteFile(outdir, HandlerAt(i).output_path, PARTIAL)
    /\ handlers' = [handlers EXCEPT !.h[i].pc = "converting"]
    /\ UNCHANGED <<unprocessed, downloaded_files, last>>
    /\ UNCHANGED seqVars

\* Lines 197-207 and 240-243: the encoder completes the output.
ConvertEnd(i) ==
    /\ pc = "parallel"
    /\ HandlerAt(i).pc = "converting"
    /\ outdir' = WriteFile(outdir, HandlerAt(i).output_path, HandlerAt(i).content)
    /\ handlers' = [handlers EXCEPT !.h[i].pc = "scan"]
    /\ UNCHANGED <<unprocessed, downloaded_files, last>>
    /\ UNCHANGED seqVars

\* Lines 265-267 and 150-156: the handler takes the lock if there is one and
\* _is_duplicate lists the directory.
ScanList(i) ==
    /\ pc = "parallel"
    /\ HandlerAt(i).pc = "scan"
    /\ handlers.locking => handlers.holder = 0
    /\ handlers' = [handlers EXCEPT
                      !.holder = IF handlers.locking THEN i ELSE 0,
                      !.h[i].pc = "hash",
                      !.h[i].listing = glob_mp3(outdir)]
    /\ UNCHANGED <<outdir, unprocessed, downloaded_files, last>>
    /\ UNCHANGED seqVars

\* Lines 156-160: the listed files are digested, in the order the directory
\* gives them.  A vanished file met before a match raises, and the handler's
\* except clause (line 279) ends it: the file stays, unrecorded.
ScanHash(i) ==
    /\ pc = "parallel"
    /\ HandlerAt(i).pc = "hash"
    /\ \/ /\ Vanished(i) \ {HandlerAt(i).output_path} # {}
          /\ handlers' = [handlers EXCEPT !.holder = 0, !.h[i].pc = "done"]
       \/ /\ \/ Vanished(i) \ {HandlerAt(i).output_path} = {}
             \/ is_duplicate(Listed(i), HandlerAt(i).output_path)
          /\ handlers' = [handlers EXCEPT
                            !.h[i].pc = "commit",
                            !.h[i].dup = is_duplicate(Listed(i),
                                                      HandlerAt(i).output_path)]
    /\ UNCHANGED <<outdir, unprocessed, downloaded_files, last>>
    /\ UNCHANGED seqVars

\* Lines 268-272: the duplicate is unlinked, or the file is recorded; the
\* lock is released.
Commit(i) ==
    /\ pc = "parallel"
    /\ HandlerAt(i).pc = "commit"
    /\ IF HandlerAt(i).dup
       THEN /\ outdir' = Unlink(outdir, HandlerAt(i).output_path)
            /\ UNCHANGED downloaded_files
       ELSE /\ downloaded_files' = downloaded_files \cup {HandlerAt(i).output_path}
            /\ UNCHANGED outdir
    /\ handlers' = [handlers EXCEPT !.holder = 0, !.h[i].pc = "done"]
    /\ UNCHANGED <<unprocessed, last>>
    /\ UNCHANGED seqVars

NextPar ==
    \E i \in Handlers :
        ConvertBegin(i) \/ ConvertEnd(i) \/ ScanList(i) \/ ScanHash(i) \/ Commit(i)

SpecPar == InitPar /\ [][NextPar]_vars

HookReturned == pc = "post"
Has(ev, e) == \E i \in 1..Len(ev) : ev[i] = e
RemoteEvents == {"remote_ok", "remote_fail"}
MoveEvents == {"move", "move_error"}

\* C1: no two distinct accepted outputs (files recorded in downloaded_files
\* and present in the output directory) have the same content digest.
C1_DedupInvariant ==
    \A p \in AcceptedOutputs : \A q \in AcceptedOutputs :
        p # q => get_file_hash(outdir, p) # get_file_hash(outdir, q)

\* C2 as claimed: whenever the local encoder failed and the raw file was
\* moved to the unprocessed directory, a remote attempt precedes the move.
C2_RemoteBeforeQuarantine ==
    HookReturned =>
        \A i \in 1..Len(last.ev) :
            (last.ev[i] = "move" /\ Has(last.ev, "local_fail"))
                => \E k \in 1..(i - 1) : last.ev[k] \in RemoteEvents

\* C2 as amended: with a source URL the remote service is attempted right
\* after the local failure and before any move; without one it is never
\* attempted; and no remote attempt ever follows a move.
C2_RemoteBeforeQuarantineIfUrl ==
    HookReturned =>
        /\ \A i \in 1..Len(last.ev) :
              last.ev[i] = "local_fail" =>
                 IF last.url # ""
                 THEN i < Len(last.ev) /\ last.ev[i + 1] \in RemoteEvents
                 ELSE \A k \in 1..Len(last.ev) : last.ev[k] \notin RemoteEvents
        /\ \A i \in 1..Len(last.ev) : \A k \in 1..Len(last.ev) :
              (last.ev[i] \in MoveEvents /\ last.ev[k] \in RemoteEvents) => k < i

\* The local encoder and then the remote service failed, and the raw
\* file was moved only after that.
C2_Witness ==
    /\ HookReturned
    /\ last.url # ""
    /\ last.ev = <<"local_fail", "remote_fail", "move">>
    /\ Exists(unprocessed, last.filename)

\* C3: after a quarantine (the raw file was moved), the raw file is in
\* the unprocessed directory under its name and neither it nor a partial
\* canonical file of the item is left in the output directory.
C3_QuarantineLeavesNothing ==
    (HookReturned /\ Has(last.ev, "move")) =>
        /\ Exists(unprocessed, last.filename)
        /\ ~Exists(outdir, last.filename)
        /\ ~( /\ Exists(outdir, with_suffix_mp3(last.filename))
              /\ outdir[with_suffix_mp3(last.filename)] = PARTIAL )

\* C9: when the hook has returned, whatever the two encoders did (and no
\* move having failed), the output directory holds no partly written
\* canonical file and no unconverted raw file.
C9_NoHalfProcessedFiles ==
    (HookReturned /\ ~Has(last.ev, "move_error")) =>
        \A p \in DOMAIN outdir : outdir[p] # PARTIAL /\ Lower(p[2]) = "mp3"

\* A completion event whose candidate finds, at its own path, a file with
\* the candidate's content.
Reprocessed ==
    /\ pc = "item"
    /\ pc' = "post"
    /\ last'.cand # <<>>
    /\ Exists(outdir, last'.cand[1])
    /\ outdir[last'.cand[1]] = last'.cand[2]

Returned == pc = "done"
\* The step on which extract_info raised.
FaultStep == pc \in {"item", "post"} /\ lastFault = NoFault /\ lastFault' # NoFault
\* The step on which the content filter rejected an item.
FilterStep == pc = "item" /\ pc' = "item" /\ item' = item + 1

\* C4: when the last attempt, and so every attempt, failed with a
\* transient fault, exactly max_retries attempts were made, the waits
\* were 2^0, 2^1, ... after every attempt but the last, and the result
\* is False.
C4_RetryBound ==
    (Returned /\ lastFault \in TransientFaults) =>
        /\ calls = max_retries
        /\ Len(waits) = max_retries - 1
        /\ \A i \in 1..Len(waits) : waits[i] = 2 ^ (i - 1)
        /\ result = "False"

\* Three attempts, waits of 1 s and 2 s, then failure.
C4_Witness ==
    /\ Returned
    /\ lastFault \in TransientFaults
    /\ max_retries = 3
    /\ calls = 3
    /\ waits = <<1, 2>>
    /\ result = "False"

\* C5: a rejected item causes no fetch and no file-system effect, and the
\* skip counter goes up by one for an item it has not counted before.
C5_FilteredCountedOnce ==
    [][FilterStep =>
         /\ UNCHANGED <<outdir, unprocessed, downloaded_files, fetched, calls>>
         /\ skipped_ads_count' = skipped_ads_count + 1
         /\ item \notin skippedItems]_vars

\* C6: when the acquisition of a collection returns after an attempt,
\* every item of the collection other than the failed one has been
\* fetched or filtered.
C6_RemainingItemsProcessed ==
    (Returned /\ calls >= 1) =>
        \A i \in 1..nItems :
            \/ i \in fetched
            \/ i \in skippedItems
            \/ (lastFault # NoFault /\ i = item)

\* C7: a permanent fault ends the acquisition on the spot: the result is
\* False, no wait is added and no attempt follows, on whichever attempt
\* it is raised.
C7_PermanentSkip ==
    [][(FaultStep /\ lastFault' \in PermanentFaults) =>
         /\ pc' = "done"
         /\ result' = "False"
         /\ waits' = waits
         /\ calls' = calls
         /\ attempt' = attempt
         /\ calls' = attempt + 1
         /\ Len(waits') = attempt]_vars

\* A permanent fault on the second attempt of a URL.
C7_Witness ==
    /\ Returned
    /\ lastFault \in PermanentFaults
    /\ attempt = 1
    /\ calls = 2
    /\ waits = <<1>>
    /\ result = "False"

\* C8: when an item of the final attempt was quarantined, its raw file
\* is kept in the unprocessed directory and the acquisition reports a
\* failure.
C8_QuarantineReportedFailed ==
    (Returned /\ quarantined # {}) =>
        /\ \E p \in AcqPaths : Exists(unprocessed, p)
        /\ result = "False"

\* Faults reported as an advertisement during the fetch.
AdFaults == {f \in Faults : "advertisement" \in f.msg}

\* C11: the step on which an item is filtered, by the content filter or
\* by an advertisement fault of the fetch, adds no backoff wait, starts no
\* further attempt and yields no failure: the content filter lets the
\* resolver go on with the same attempt, and an advertisement fault ends
\* the acquisition with True.
C11_FilteredNeverRetried ==
    [][((FilterStep \/ (FaultStep /\ lastFault' \in AdFaults)) =>
          /\ waits' = waits
          /\ attempt' = attempt
          /\ calls' = calls
          /\ result' \notin {"False", "None"}
          /\ pc' # "loop")
       /\ (FilterStep => (pc' = "item" /\ result' = result /\ lastFault' = NoFault))
       /\ ((FaultStep /\ lastFault' \in AdFaults) => (pc' = "done" /\ result' = "True"))]_vars

\* The content filter rejected item 1 and the fetch of item 2 reported an
\* advertisement: the result is True after one call and no wait.
C11_Witness ==
    /\ Returned
    /\ lastFault \in AdFaults
    /\ result = "True"
    /\ calls = 1
    /\ waits = <<>>
    /\ skippedItems = {1, 2}
    /\ skipped_ads_count = 2
    /\ item = 2

\* The step on which extract_info returns an info dict with a title.
SuccessStep == pc = "item" /\ pc' = "done" /\ lastFault' = NoFault /\ result' = "True"

Exited == pc = "exit"

\* C13: the exit status is 1 exactly when a processed URL was reported as
\* failed or the construction failed, and 0 when every URL succeeded; the
\* URLs are processed once each, in order, and a failed URL does not stop
\* the ones after it.
C13_ExitStatus ==
    /\ Len(urlLog) <= nUrls
    /\ \A i \in 1..Len(urlLog) : urlLog[i].url = i
    /\ Exited =>
          /\ exitCode \in {0, 1}
          /\ (exitCode = 1) <=> (~ffmpeg \/ \E i \in 1..Len(urlLog) : ~urlLog[i].ok)
          /\ ffmpeg => Len(urlLog) = nUrls
          /\ (exitCode = 0) => (Len(urlLog) = nUrls /\ \A i \in 1..nUrls : urlLog[i].ok)

\* The first URL of a list of two failed, the second was still processed
\* and succeeded, and the status is 1.
C13_Witness ==
    /\ Exited
    /\ nUrls = 2
    /\ urlLog = <<[url |-> 1, ok |-> FALSE], [url |-> 2, ok |-> TRUE]>>
    /\ exitCode = 1

\* C14: with the encoder missing the program goes from construction
\* straight to exit status 1: no URL is processed, nothing is resolved,
\* fetched or written, and no per-item handler sees a fault.  With the
\* encoder present no fault ends the run early.
C14_MissingEncoderFatal ==
    /\ ~ffmpeg =>
          /\ pc \in {"start", "exit"}
          /\ calls = 0
          /\ urlIdx = 0
          /\ urlLog = <<>>
          /\ fetched = {}
          /\ skippedItems = {}
          /\ lastFault = NoFault
          /\ outdir = NoFile /\ unprocessed = NoFile
          /\ Exited => exitCode = 1
    /\ (ffmpeg /\ Exited) => urlIdx = nUrls

\* The construction failed and the process exited with status 1.
C14_Witness ==
    /\ ~ffmpeg
    /\ Exited
    /\ exitCode = 1
    /\ calls = 0
    /\ urlIdx = 0

\* ---------------------------------------------------- content filter claim
\* The conditions of rejection as the claim lists them; texts are
\* compared case-insensitively.
ClaimedRejection(d) ==
    \/ d.is_ad \/ d.ad_flag
    \/ str_in(W_advertisement, str_lower(d.title))
    \/ str_in(W_sponsor, str_lower(d.title))
    \/ d.duration < 10
    \/ d.channel_id \in AdChannelIds
    \/ \E i \in 1..Len(d.tags) :
          str_lower(d.tags[i]) \in {W_ad, W_advertisement, W_sponsor}
    \/ d.live_status = "is_live"

\* C15: the content filter rejects a candidate exactly when one of the
\* listed conditions holds, and counts it; otherwise it admits it.
C15_FilterExactlyListed ==
    pc = "filtered" =>
        /\ (filterRun.ret # "None") <=> ClaimedRejection(filterRun.info_dict)
        /\ skipped_ads_count = IF ClaimedRejection(filterRun.info_dict) THEN 1 ELSE 0

\* ------------------------------------------------- completion handler claims
\* The step on which the hook handles a completion event.
HookStep == pc = "item" /\ pc' = "post" /\ last' # NoEvent
EncodeEvents == {"local_ok", "local_fail", "remote_ok", "remote_fail"}
CanonicalSuffixes == {"mp3", "MP3"}

\* C16: the remote service is invoked only right after a failed local
\* encode and with a non-empty source URL: never after a successful local
\* encode, never for a raw file in canonical format, never with an empty
\* URL, and at most once.
C16_RemoteOnlyAfterLocalFailure ==
    HookReturned =>
        \A i \in 1..Len(last.ev) :
            last.ev[i] \in RemoteEvents =>
                /\ i = 2
                /\ last.ev[1] = "local_fail"
                /\ last.url # ""
                /\ last.filename[2] \notin CanonicalSuffixes
                /\ ~Has(last.ev, "local_ok")

\* The local encoder failed, the remote service was invoked with the
\* source URL and succeeded, and its output was accepted.
C16_Witness ==
    /\ HookReturned
    /\ last.url # ""
    /\ last.ev = <<"local_fail", "remote_ok", "accepted">>
    /\ last.cand[1] \in downloaded_files

\* C17 as claimed: when the hook has returned, a raw file that is not in
\* canonical format is no longer in the output directory.
C17_RawLeavesOutput ==
    (HookReturned /\ last.filename[2] \notin CanonicalSuffixes) =>
        ~Exists(outdir, last.filename)

\* C17 as amended: the raw file is deleted exactly when an encode
\* succeeded; otherwise it is moved to the unprocessed directory, or, when
\* the move itself fails, left in the output directory as it was; it is
\* never deleted without a successful encode.
C17_RawDeletedOrMovedUnlessMoveFails ==
    [][(HookStep /\ last'.filename[2] \notin CanonicalSuffixes) =>
         LET fn == last'.filename
             ev == last'.ev
             encoded == Has(ev, "local_ok") \/ Has(ev, "remote_ok")
         IN /\ encoded =>
                  /\ ~Exists(outdir', fn)
                  /\ unprocessed' = unprocessed
                  /\ ~Has(ev, "move") /\ ~Has(ev, "move_error")
            /\ ~encoded =>
                  IF Has(ev, "move")
                  THEN /\ ~Exists(outdir', fn)
                       /\ Exists(unprocessed', fn)
                       /\ unprocessed'[fn] = RAW
                  ELSE /\ Has(ev, "move_error")
                       /\ Exists(outdir', fn)
                       /\ outdir'[fn] = RAW
                       /\ unprocessed' = unprocessed]_vars

\* No source URL: the local encode failed and the raw file was moved.
C17_Witness ==
    /\ HookReturned
    /\ last.url = ""
    /\ last.ev = <<"local_fail", "move">>
    /\ Exists(unprocessed, last.filename)
    /\ unprocessed[last.filename] = RAW
    /\ ~Exists(outdir, last.filename)

\* C18: for a raw file whose suffix is .mp3 in any case, no encoder is
\* invoked, nothing is moved, no other file of the two directories is
\* touched, and the raw file itself, under its own name, is the candidate
\* of the dedup check, which keeps it or deletes it as a duplicate.
C18_CanonicalRawSkipsEncoding ==
    [][(HookStep /\ last'.filename[2] \in CanonicalSuffixes) =>
         LET fn == last'.filename
             ev == last'.ev
         IN /\ \A i \in 1..Len(ev) : ev[i] \notin EncodeEvents \cup MoveEvents
            /\ ev \in {<<"accepted">>, <<"duplicate">>}
            /\ last'.cand # <<>>
            /\ last'.cand[1] = fn
            /\ last'.cand[2] \in Contents
            /\ unprocessed' = unprocessed
            /\ \A p \in (DOMAIN outdir) \ {fn} :
                  Exists(outdir', p) /\ outdir'[p] = outdir[p]
            /\ (DOMAIN outdir') \subseteq (DOMAIN outdir) \cup {fn}
            /\ IF Has(ev, "accepted")
               THEN /\ Exists(outdir', fn)
                    /\ outdir'[fn] = last'.cand[2]
                    /\ downloaded_files' = downloaded_files \cup {fn}
               ELSE ~Exists(outdir', fn)]_vars

\* A raw file named a.MP3 was accepted as it is.
C18_Witness ==
    /\ HookReturned
    /\ last.filename = <<"a", "MP3">>
    /\ last.ev = <<"accepted">>
    /\ last.cand[1] = last.filename
    /\ Exists(outdir, last.filename)

\* C19: when the dedup check finds the candidate to be a duplicate, the
\* candidate is deleted and the accepted set is unchanged; the file it
\* duplicates, and every other file, keeps its path and content.
C19_DuplicateFrame ==
    [][(HookStep /\ Has(last'.ev, "duplicate")) =>
         LET path == last'.cand[1]
         IN /\ downloaded_files' = downloaded_files
            /\ ~Exists(outdir', path)
            /\ \E e \in glob_mp3(outdir) \ {path} :
                  /\ outdir[e] = last'.cand[2]
                  /\ Exists(outdir', e)
                  /\ outdir'[e] = outdir[e]
            /\ \A p \in (DOMAIN outdir) \ {path, last'.filename} :
                  Exists(outdir', p) /\ outdir'[p] = outdir[p]
            /\ (DOMAIN outdir') \subseteq (DOMAIN outdir)
            /\ unprocessed' = unprocessed]_vars

\* An item was encoded to the content of an accepted output and deleted
\* as its duplicate; the accepted output is still there.
C19_Witness ==
    /\ HookReturned
    /\ last.ev = <<"local_ok", "duplicate">>
    /\ ~Exists(outdir, last.cand[1])
    /\ last.cand[1] \notin downloaded_files
    /\ \E e \in downloaded_files : Exists(outdir, e) /\ outdir[e] = last.cand[2]

\* ---------------------------------------------------- remote converter claim
OnlineDone == online.pc = "done"
LastEvent(ev) == IF ev = <<>> THEN <<"", "">> ELSE ev[Len(ev)]

OnlineBounded ==
    /\ online.gets <= 3
    /\ online.retry_count <= 3
    /\ online.gets >= online.retry_count
    /\ Len(online.waits) = (IF online.retry_count < 3 THEN online.retry_count ELSE 2)
    /\ \A j \in 1..Len(online.waits) : online.waits[j] = 2 ^ j
    /\ \A j \in 1..Len(online.events) :
          online.events[j][1] = "sleep" =>
              /\ online.events[j - 1] \in {<<"get", "request_exception">>,
                                           <<"get", "stream_exception">>}
              /\ (OnlineDone \/ j < Len(online.events)) =>
                    (j < Len(online.events) /\ online.events[j + 1][1] = "get")
    /\ ~OnlineDone => online.ret = "none"
    /\ OnlineDone =>
          /\ online.ret \in {"True", "False"}
          /\ LastEvent(online.events)[1] # "sleep"
          /\ (online.ret = "True") <=> (LastEvent(online.events) = <<"get", "ok">>)
          /\ online.retry_count = 3 => (online.ret = "False" /\ online.gets = 3)
          /\ online.ret = "True" =>
                /\ online.gets = online.retry_count + 1
                /\ Exists(outdir, online.output_path)
                /\ outdir[online.output_path] \in Contents

\* C20: the result download is attempted at most 3 times; a failed
\* attempt other than the third is followed by a wait of 2, then 4
\* seconds and by another attempt; the third failure returns False with
\* no wait; a successful attempt returns True at once; and the call
\* always ends, with True or False.
C20_OnlineDownloadBounded ==
    []OnlineBounded /\ <>OnlineDone

\* Two transport failures, waits of 2 s and 4 s, and a third attempt
\* that succeeds.
C20_Witness ==
    /\ OnlineDone
    /\ online.ret = "True"
    /\ online.gets = 3
    /\ online.retry_count = 2
    /\ online.waits = <<2, 4>>

\* -------------------------------------------------------- accepted files
\* C24: the processing of a later item that has to be encoded never
\* deletes or overwrites a file recorded in downloaded_files: the file is
\* still there when the hook returns, with the content it had.
C24_AcceptedFilesKept ==
    [][(HookStep /\ last'.filename[2] \notin CanonicalSuffixes) =>
         \A p \in downloaded_files :
            Exists(outdir, p) => (Exists(outdir', p) /\ outdir'[p] = outdir[p])]_vars

\* ------------------------------------------------------------ retry count
\* C25: whatever max_retries is, when _download_with_retry returns it has
\* called the resolver at least once and its result is True or False.
C25_AtLeastOneAttempt ==
    Returned => (calls >= 1 /\ result \in {"True", "False"})

\* ------------------------------------------------------------- escalation
HookEnds == {"accepted", "duplicate", "move", "move_error", "error"}

\* The hook, run on the present directories for a file and a combination
\* of outcomes, comes to one of its ends with every exception caught.
HookReturnsFor(filename, raw, in) ==
    LET r == download_hook(WriteFile(outdir, filename, raw), unprocessed,
                           downloaded_files, filename, in)
    IN /\ ~Has(r.ev, "raised")
       /\ r.ev # <<>>
       /\ r.ev[Len(r.ev)] \in HookEnds

\* C21: wherever an item can be fetched, the completion handler returns
\* without raising for every combination of outcomes of the local encode,
\* the remote encode, the file move and the digest computation; a fault
\* of the fetch is caught by _download_with_retry, which retries or
\* returns True or False; and when it returns after an attempt its
\* result is True or False.
C21_NoEscalation ==
    /\ [](pc = "item" =>
            \A filename \in Paths : \A raw \in RawContents(filename[2]) :
               \A in \in AllHookInputs : HookReturnsFor(filename, raw, in))
    /\ [][FaultStep =>
            /\ pc' \in {"loop", "done"}
            /\ pc' = "done" => result' \in {"True", "False"}]_vars
    /\ []((Returned /\ calls >= 1) => result \in {"True", "False"})

\* The digest computation raised in the hook, the hook returned, and the
\* acquisition went on to return True.
C21_Witness ==
    /\ Returned
    /\ result = "True"
    /\ lastFault = NoFault
    /\ \E p \in glob_mp3(outdir) : p \notin downloaded_files /\ outdir[p] \in Contents

\* --------------------------------------------------------------- filenames
\* A path whose name the sanitizer would leave as it is.
Sanitized(p) == sanitize_filename(<<title(p[1]), p[2]>>) = <<title(p[1]), p[2]>>

\* C22: when the hook has returned, every file of the item in the output
\* directory and in the unprocessed directory (the raw download, the
\* encoded output, the quarantined file) has a sanitized name.
C22_NamesSanitized ==
    HookReturned =>
        \A p \in (DOMAIN outdir) \cup (DOMAIN unprocessed) :
            p[1] = last.filename[1] => Sanitized(p)

\* The accepted outputs no handler is working on: a handler that has written
\* its file and not yet committed holds a file that is not settled, with or
\* without parallelism.
InFlight == {HandlerAt(i).output_path :
                i \in {j \in Handlers : HandlerAt(j).pc \in {"converting", "scan", "hash", "commit"}}}
SettledOutputs == AcceptedOutputs \ InFlight
OneArtifactPerDigest ==
    \A p \in SettledOutputs : \A q \in SettledOutputs :
        p # q => get_file_hash(outdir, p) # get_file_hash(outdir, q)
IdenticalContent == HandlerAt(1).content = HandlerAt(2).content
KeptOf(i) ==
    /\ Exists(outdir, HandlerAt(i).output_path)
    /\ outdir[HandlerAt(i).output_path] = HandlerAt(i).content
    /\ HandlerAt(i).output_path \in downloaded_files

====
